---- MODULE Spec2Model ----
(***************************************************************************)
(* Model of echotextAI's core:                                             *)
(*   - utils/speech_to_text.py: the lazy Whisper model loader              *)
(*     (_get_whisper_model / _load_model) called from concurrent request   *)
(*     threads, and convert_to_text on top of it;                          *)
(*   - utils/ai_summarizer.py: generate_output with its cleaners and local *)
(*     fallback generators.                                                *)
(***************************************************************************)
EXTENDS Integers, Sequences, FiniteSets, TLC

(* ---------------------------------------------------------------------- *)
(* Bounds                                                                  *)
(* ---------------------------------------------------------------------- *)
NumThreads == 2
MaxCalls == 2

Threads == 1..NumThreads

(* ---------------------------------------------------------------------- *)
(* speech_to_text.py: values                                               *)
(* ---------------------------------------------------------------------- *)
\* Python's None for _whisper_model; handles are the positive integers.
None == 0

\* str(e) of the EnvironmentError raised by _ensure_ffmpeg.
FfmpegMsg == "FFmpeg is not installed or not found in PATH."

\* str(e) of what whisper.load_model may raise; str(MemoryError()) is "".
LoadCauses == {"checksum mismatch", ""}

\* An optional string is <<>> (None) or <<s>>.
Truthy(opt) == opt # <<>> /\ opt[1] # ""

VARIABLES
    whisper_model,   \* _whisper_model: None or the loaded handle
    model_lock,      \* _model_lock: 0 when free, else the holding thread
    model_loading,   \* _model_loading
    model_error,     \* _model_error: <<>> (None) or <<str(e)>>
    pc,              \* per thread: the source line it is about to execute
    call,            \* per thread: the call in progress
    result,          \* per thread: outcome of the latest call
    got,             \* per thread: the last handle _get_whisper_model returned
    after_fail,      \* per thread: the call started after a load had failed
    ncalls,          \* calls started so far
    load_calls,      \* executions of _load_model so far
    loaded,          \* handles whose whisper.load_model has returned
    first_error,     \* <<>> or <<str(e)>> of the first failed load
    gen_pc,          \* generate_output: the line about to execute
    gen_text,        \* its argument text: <<>> (None) or <<str>>
    gen_kind,        \* its argument output_type
    gen_prompt,      \* prompt: <<>> or <<template key, text>>
    gen_status,      \* response.status_code, 0 before a response arrives
    gen_content,     \* choices[0].message.content of the body: <<>> or <<str>>
    gen_raw,         \* the local result (line 149): <<>> or <<str>>
    gen_ran,         \* the functions and calls executed by this call
    gen_result,      \* what the call returned: <<>> or <<str>>
    clean_pc,        \* a cleaner under test: "idle", "called", "once", "twice"
    clean_fn,        \* which cleaner: "clean_quiz" or "clean_flashcards"
    clean_raw,       \* its argument output
    clean_out,       \* <<>> or <<what it returned>>
    clean_again      \* <<>> or <<what it returned when given clean_out>>

guard == <<whisper_model, model_lock, model_loading, model_error>>
ghost == <<load_calls, loaded, first_error>>
guard_vars == <<whisper_model, model_lock, model_loading, model_error, pc,
                call, result, got, after_fail, ncalls, load_calls, loaded,
                first_error>>
gen_vars == <<gen_pc, gen_text, gen_kind, gen_prompt, gen_status, gen_content,
              gen_raw, gen_ran, gen_result>>
clean_vars == <<clean_pc, clean_fn, clean_raw, clean_out, clean_again>>
vars == <<guard_vars, gen_vars, clean_vars>>

Pending == [kind |-> "pending", val |-> None, cause |-> <<>>]
Returned(h) == [kind |-> "return", val |-> h, cause |-> <<>>]
\* RuntimeError(f"Speech model failed to load: {_model_error}")
LoadFailed(err) == [kind |-> "RuntimeError", val |-> None, cause |-> err]
\* RuntimeError("Model failed to initialize for unknown reason.")
UnknownReason == [kind |-> "UnknownReason", val |-> None, cause |-> <<>>]
NotFound == [kind |-> "FileNotFoundError", val |-> None, cause |-> <<>>]

GuardInit ==
    /\ whisper_model = None
    /\ model_lock = 0
    /\ model_loading = FALSE
    /\ model_error = <<>>
    /\ pc = [t \in Threads |-> "idle"]
    /\ call = [t \in Threads |-> [op |-> "none", exists |-> TRUE]]
    /\ result = [t \in Threads |-> Pending]
    /\ got = [t \in Threads |-> None]
    /\ after_fail = [t \in Threads |-> FALSE]
    /\ ncalls = 0
    /\ load_calls = 0
    /\ loaded = {}
    /\ first_error = <<>>

(* ---------------------------------------------------------------------- *)
(* Calls arriving on a request thread                                      *)
(* ---------------------------------------------------------------------- *)
Begin(t, op, exists, at) ==
    /\ pc[t] = "idle"
    /\ ncalls < MaxCalls
    /\ ncalls' = ncalls + 1
    /\ pc' = [pc EXCEPT ![t] = at]
    /\ call' = [call EXCEPT ![t] = [op |-> op, exists |-> exists]]
    /\ result' = [result EXCEPT ![t] = Pending]
    /\ after_fail' = [after_fail EXCEPT ![t] = first_error # <<>>]
    /\ UNCHANGED <<guard, ghost, got,
                   gen_vars, clean_vars>>

\* convert_to_text(file_path) is entered; the path exists or not.
CallConvert(t) == \E exists \in BOOLEAN : Begin(t, "convert", exists, "c88")

\* _get_whisper_model("tiny") is called directly (app.py warm-up).
CallGet(t) == Begin(t, "get", TRUE, "g63")

Finish(t, r) ==
    /\ pc' = [pc EXCEPT ![t] = "idle"]
    /\ result' = [result EXCEPT ![t] = r]

\* Faulty variant: the existence check is missing; the model is fetched first.
ExistsCheck_Skipped(t) ==
    /\ pc[t] = "c88"
    /\ pc' = [pc EXCEPT ![t] = "g63"]
    /\ UNCHANGED <<guard, ghost, call, result, got, after_fail, ncalls,
                   gen_vars, clean_vars>>

\* convert_to_text line 88-89: the os.path.exists check.
ExistsCheck(t) ==
    /\ pc[t] = "c88"
    /\ IF ~call[t].exists
       THEN Finish(t, NotFound)
       ELSE pc' = [pc EXCEPT ![t] = "g63"] /\ UNCHANGED result
    /\ UNCHANGED <<guard, ghost, call, got, after_fail, ncalls,
                   gen_vars, clean_vars>>

(* ---------------------------------------------------------------------- *)
(* _get_whisper_model                                                      *)
(* ---------------------------------------------------------------------- *)
\* line 63-64: if _model_error: raise
CheckError(t) ==
    /\ pc[t] = "g63"
    /\ IF Truthy(model_error)
       THEN Finish(t, LoadFailed(model_error))
       ELSE pc' = [pc EXCEPT ![t] = "g67"] /\ UNCHANGED result
    /\ UNCHANGED <<guard, ghost, call, got, after_fail, ncalls,
                   gen_vars, clean_vars>>

\* line 67: the fast path's test
FastPath(t) ==
    /\ pc[t] = "g67"
    /\ pc' = [pc EXCEPT ![t] = IF whisper_model # None THEN "g68" ELSE "g71"]
    /\ UNCHANGED <<guard, ghost, call, result, got, after_fail, ncalls,
                   gen_vars, clean_vars>>

\* The value _get_whisper_model returns goes back to its caller: line 91 of
\* convert_to_text, or the direct caller.
ReturnModel(t, h) ==
    /\ result' = [result EXCEPT ![t] = Returned(h)]
    /\ got' = [got EXCEPT ![t] = h]
    /\ pc' = [pc EXCEPT ![t] = IF call[t].op = "convert" THEN "c95" ELSE "idle"]

\* line 68: return _whisper_model (a second read of the global)
FastReturn(t) ==
    /\ pc[t] = "g68"
    /\ ReturnModel(t, whisper_model)
    /\ UNCHANGED <<guard, ghost, call, after_fail, ncalls,
                   gen_vars, clean_vars>>

\* line 71: with _model_lock (entry); blocks while another thread holds it
Acquire(t) ==
    /\ pc[t] = "g71"
    /\ model_lock = 0
    /\ model_lock' = t
    /\ pc' = [pc EXCEPT ![t] = "g72"]
    /\ UNCHANGED <<whisper_model, model_loading, model_error, ghost, call,
                   result, got, after_fail, ncalls,
                   gen_vars, clean_vars>>

\* Faulty variant: the re-check of _whisper_model under the lock is forgotten.
MustLoad_NoRecheck(m, loading) == ~loading

\* line 72: the test made under the lock
MustLoad(m, loading) == m = None /\ ~loading

\* line 72-74: under the lock, decide to load; _load_model is entered
CheckInside(t) ==
    /\ pc[t] = "g72"
    /\ IF MustLoad(whisper_model, model_loading)
       THEN /\ model_loading' = TRUE
            /\ load_calls' = load_calls + 1
            /\ pc' = [pc EXCEPT ![t] = "l36"]
       ELSE /\ pc' = [pc EXCEPT ![t] = "exit"]
            /\ UNCHANGED <<model_loading, load_calls>>
    /\ UNCHANGED <<whisper_model, model_lock, model_error, loaded, first_error,
                   call, result, got, after_fail, ncalls,
                   gen_vars, clean_vars>>

\* _load_model's except (line 42-44) and finally (line 47) after a raise
LoadRaised(t, msg) ==
    /\ model_error' = <<msg>>
    /\ model_loading' = FALSE
    /\ first_error' = IF first_error = <<>> THEN <<msg>> ELSE first_error
    /\ pc' = [pc EXCEPT ![t] = "exit"]
    /\ UNCHANGED <<whisper_model, loaded>>

\* line 36: _ensure_ffmpeg() finds ffmpeg on the PATH or raises
EnsureFfmpeg(t) ==
    /\ pc[t] = "l36"
    /\ \/ /\ pc' = [pc EXCEPT ![t] = "l38"]
          /\ UNCHANGED <<whisper_model, model_loading, model_error, loaded,
                         first_error>>
       \/ LoadRaised(t, FfmpegMsg)
    /\ UNCHANGED <<model_lock, load_calls, call, result, got, after_fail,
                   ncalls,
                   gen_vars, clean_vars>>

\* line 38-47: whisper.load_model returns a new model object, or raises
LoadWhisper(t) ==
    /\ pc[t] = "l38"
    /\ \/ /\ whisper_model' = load_calls
          /\ loaded' = loaded \cup {load_calls}
          /\ model_loading' = FALSE
          /\ pc' = [pc EXCEPT ![t] = "exit"]
          /\ UNCHANGED <<model_error, first_error>>
       \/ \E msg \in LoadCauses : LoadRaised(t, msg)
    /\ UNCHANGED <<model_lock, load_calls, call, result, got, after_fail,
                   ncalls,
                   gen_vars, clean_vars>>

\* Faulty variant: the lock is released by hand on the success path only.
Release_OnSuccessOnly(t) ==
    /\ pc[t] = "exit"
    /\ model_lock' = IF model_error # <<>> THEN model_lock ELSE 0
    /\ pc' = [pc EXCEPT ![t] = "g77"]
    /\ UNCHANGED <<whisper_model, model_loading, model_error, ghost, call,
                   result, got, after_fail, ncalls,
                   gen_vars, clean_vars>>

\* line 71 (exit of the with block): the lock is released
Release(t) ==
    /\ pc[t] = "exit"
    /\ model_lock' = 0
    /\ pc' = [pc EXCEPT ![t] = "g77"]
    /\ UNCHANGED <<whisper_model, model_loading, model_error, ghost, call,
                   result, got, after_fail, ncalls,
                   gen_vars, clean_vars>>

\* line 77-78: if _model_error: raise
PostError(t) ==
    /\ pc[t] = "g77"
    /\ IF Truthy(model_error)
       THEN Finish(t, LoadFailed(model_error))
       ELSE pc' = [pc EXCEPT ![t] = "g80"] /\ UNCHANGED result
    /\ UNCHANGED <<guard, ghost, call, got, after_fail, ncalls,
                   gen_vars, clean_vars>>

\* Faulty variant: the final None check is missing.
PostNone_NoCheck(t) ==
    /\ pc[t] = "g80"
    /\ pc' = [pc EXCEPT ![t] = "g83"]
    /\ UNCHANGED <<guard, ghost, call, result, got, after_fail, ncalls,
                   gen_vars, clean_vars>>

\* line 80-81: if _whisper_model is None: raise
PostNone(t) ==
    /\ pc[t] = "g80"
    /\ IF whisper_model = None
       THEN Finish(t, UnknownReason)
       ELSE pc' = [pc EXCEPT ![t] = "g83"] /\ UNCHANGED result
    /\ UNCHANGED <<guard, ghost, call, got, after_fail, ncalls,
                   gen_vars, clean_vars>>

\* line 83: return _whisper_model
PostReturn(t) ==
    /\ pc[t] = "g83"
    /\ ReturnModel(t, whisper_model)
    /\ UNCHANGED <<guard, ghost, call, after_fail, ncalls,
                   gen_vars, clean_vars>>

\* convert_to_text line 93-101: model.transcribe on the handle obtained
Transcribe(t) ==
    /\ pc[t] = "c95"
    /\ pc' = [pc EXCEPT ![t] = "idle"]
    /\ UNCHANGED <<guard, ghost, call, result, got, after_fail, ncalls,
                   gen_vars, clean_vars>>

\* The steps of a call in progress (everything but its arrival).
Step(t) ==
    \/ ExistsCheck(t)
    \/ CheckError(t)
    \/ FastPath(t)
    \/ FastReturn(t)
    \/ Acquire(t)
    \/ CheckInside(t)
    \/ EnsureFfmpeg(t)
    \/ LoadWhisper(t)
    \/ Release(t)
    \/ PostError(t)
    \/ PostNone(t)
    \/ PostReturn(t)
    \/ Transcribe(t)

GuardNext == \E t \in Threads : CallConvert(t) \/ CallGet(t) \/ Step(t)


(* ---------------------------------------------------------------------- *)
(* ai_summarizer.py: strings                                               *)
(* A Python str is a sequence of one-character strings.                    *)
(* ---------------------------------------------------------------------- *)
NL == "\n"
\* The characters \s and str.strip()/str.split() treat as whitespace.
IsSpace(c) == c \in {" ", NL, "\t"}

Max(S) == CHOOSE x \in S : \A y \in S : y <= x
Min(S) == CHOOSE x \in S : \A y \in S : x <= y

\* str.lower() and str.upper(), character by character (ASCII letters).
LowerLetters ==
    <<"a", "b", "c", "d", "e", "f", "g", "h", "i", "j", "k", "l",
      "m", "n", "o", "p", "q", "r", "s", "t", "u", "v", "w", "x",
      "y", "z">>
UpperLetters ==
    <<"A", "B", "C", "D", "E", "F", "G", "H", "I", "J", "K", "L",
      "M", "N", "O", "P", "Q", "R", "S", "T", "U", "V", "W", "X",
      "Y", "Z">>
IsUpper(c) == \E k \in 1..26 : UpperLetters[k] = c
IsLower(c) == \E k \in 1..26 : LowerLetters[k] = c
IsAlpha(c) == IsUpper(c) \/ IsLower(c)
LowerChar(c) ==
    IF IsUpper(c) THEN LowerLetters[CHOOSE k \in 1..26 : UpperLetters[k] = c]
    ELSE c
UpperChar(c) ==
    IF IsLower(c) THEN UpperLetters[CHOOSE k \in 1..26 : LowerLetters[k] = c]
    ELSE c
Lower(s) == [k \in 1..Len(s) |-> LowerChar(s[k])]

\* str.strip(): leading and trailing whitespace removed.
Strip(s) ==
    LET keep == {k \in 1..Len(s) : ~IsSpace(s[k])}
    IN  IF keep = {} THEN <<>> ELSE SubSeq(s, Min(keep), Max(keep))

\* s[i:] in Python terms, with i counted from 1.
From(s, i) == SubSeq(s, i, Len(s))

\* str.startswith(p) at position i.
HasAt(s, i, p) == i + Len(p) - 1 <= Len(s) /\ SubSeq(s, i, i + Len(p) - 1) = p
StartsWith(s, p) == HasAt(s, 1, p)

\* The last index of the maximal whitespace run that starts at k (k - 1 when
\* s[k] is not whitespace or k is past the end).
RunEnd(s, k) ==
    LET stop == {j \in k..Len(s) : ~IsSpace(s[j])}
    IN  IF stop = {} THEN Len(s) ELSE Min(stop) - 1

\* The last index of the line that holds position g: '.' matches all but \n.
LineEnd(s, g) ==
    LET nls == {j \in g..Len(s) : s[j] = NL}
    IN  IF nls = {} THEN Len(s) ELSE Min(nls) - 1

\* len(s.split()): the number of whitespace-separated words.
WordCount(s) ==
    Cardinality({k \in 1..Len(s) :
                    ~IsSpace(s[k]) /\ (k = 1 \/ IsSpace(s[k - 1]))})

\* "sep".join(list)
RECURSIVE Join(_, _)
Join(list, sep) ==
    IF list = <<>> THEN <<>>
    ELSE IF Len(list) = 1 THEN list[1]
    ELSE list[1] \o sep \o Join(Tail(list), sep)

\* re.split(r"\n\s*\n", s): the leftmost separator starts at the first \n
\* whose following whitespace run holds another \n, and (\s* being greedy)
\* ends at the last \n of that run.
RECURSIVE SplitBlocks(_)
SplitBlocks(s) ==
    LET starts == {i \in 1..Len(s) :
                      /\ s[i] = NL
                      /\ \E j \in (i + 1)..RunEnd(s, i + 1) : s[j] = NL}
    IN  IF starts = {} THEN <<s>>
        ELSE LET i == Min(starts)
                 j == Max({j \in (i + 1)..RunEnd(s, i + 1) : s[j] = NL})
             IN  <<SubSeq(s, 1, i - 1)>> \o SplitBlocks(From(s, j + 1))

\* Where group 1 of r"\s*(.+)" starts when matched at k: \s* is greedy and
\* backtracks until '.' finds a character that is not \n; 0 when no match.
GroupStart(s, k) ==
    LET cand == {g \in k..(RunEnd(s, k) + 1) : g <= Len(s) /\ s[g] # NL}
    IN  IF cand = {} THEN 0 ELSE Max(cand)

\* re.search(label + r"\s*(.+)", block): <<>> when there is no match, else
\* <<group(1)>>, for the leftmost position where the whole pattern matches.
SearchField(block, label) ==
    LET hits == {p \in 1..Len(block) :
                    /\ HasAt(block, p, label)
                    /\ GroupStart(block, p + Len(label)) # 0}
    IN  IF hits = {} THEN <<>>
        ELSE LET g == GroupStart(block, Min(hits) + Len(label))
             IN  <<SubSeq(block, g, LineEnd(block, g))>>

(* ---------------------------------------------------------------------- *)
(* ai_summarizer.py: cleaners                                              *)
(* ---------------------------------------------------------------------- *)
LabelQ == <<"Q", ":">>
LabelA == <<"A", ":">>
LabelFront == <<"F", "r", "o", "n", "t", ":">>
LabelBack == <<"B", "a", "c", "k", ":">>

\* f"Q: {q}\nA: {a}" and f"Front: {front}\nBack: {back}"
Pair(l1, v1, l2, v2) == l1 \o <<" ">> \o v1 \o <<NL>> \o l2 \o <<" ">> \o v2

\* line 52-58: the entries clean_quiz appends, block by block
RECURSIVE QuizEntries(_)
QuizEntries(blocks) ==
    IF blocks = <<>> THEN <<>>
    ELSE LET q == SearchField(blocks[1], LabelQ)
             a == SearchField(blocks[1], LabelA)
             rest == QuizEntries(Tail(blocks))
         IN  IF q # <<>> /\ a # <<>>
             THEN <<Pair(LabelQ, Strip(q[1]), LabelA, Strip(a[1]))>> \o rest
             ELSE rest

\* line 48-60
clean_quiz(output) ==
    LET cleaned == QuizEntries(SplitBlocks(Strip(output)))
    IN  IF cleaned # <<>> THEN Join(cleaned, <<NL, NL>>) ELSE output

\* line 79: the prefixes a front may not start with (lower-cased)
FrontFillers ==
    { <<"i", "t">>, <<"t", "h", "i", "s">>,
      <<"h", "o", "w", "e", "v", "e", "r">>,
      <<"e", "x", "p", "l", "a", "i", "n">>, <<"n", "o", "t", "e">> }

\* line 77: the longest front kept, in words
MaxFrontWords == 6

\* Faulty variant: the word limit of line 77 is not applied.
FrontRejected_NoWordLimit(front) ==
    \E f \in FrontFillers : StartsWith(Lower(front), f)

\* line 77-80: whether a front is rejected
FrontRejected(front) ==
    \/ WordCount(front) > MaxFrontWords
    \/ \E f \in FrontFillers : StartsWith(Lower(front), f)

\* line 67-82: the cards clean_flashcards appends, block by block
RECURSIVE CardEntries(_)
CardEntries(blocks) ==
    IF blocks = <<>> THEN <<>>
    ELSE LET f == SearchField(blocks[1], LabelFront)
             b == SearchField(blocks[1], LabelBack)
             rest == CardEntries(Tail(blocks))
         IN  IF f = <<>> \/ b = <<>> THEN rest
             ELSE IF FrontRejected(Strip(f[1])) THEN rest
             ELSE <<Pair(LabelFront, Strip(f[1]), LabelBack, Strip(b[1]))>>
                     \o rest

\* line 63-84
clean_flashcards(output) ==
    LET cards == CardEntries(SplitBlocks(Strip(output)))
    IN  IF cards # <<>> THEN Join(cards, <<NL, NL>>) ELSE output

(* ---------------------------------------------------------------------- *)
(* ai_summarizer.py: local fallbacks                                       *)
(* ---------------------------------------------------------------------- *)
IsSentenceEnd(c) == c \in {".", "!", "?"}

\* re.split(r"(?<=[.!?])\s+", text): a separator is a whole whitespace run
\* that directly follows '.', '!' or '?'.
RECURSIVE SplitSentences(_)
SplitSentences(s) ==
    LET starts == {i \in 2..Len(s) : IsSentenceEnd(s[i - 1]) /\ IsSpace(s[i])}
    IN  IF starts = {} THEN <<s>>
        ELSE LET i == Min(starts)
             IN  <<SubSeq(s, 1, i - 1)>>
                    \o SplitSentences(From(s, RunEnd(s, i) + 1))

\* s.split(): the whitespace-separated words
RECURSIVE Words(_)
Words(s) ==
    LET t == Strip(s)
    IN  IF t = <<>> THEN <<>>
        ELSE LET sp == {k \in 1..Len(t) : IsSpace(t[k])}
             IN  IF sp = {} THEN <<t>>
                 ELSE <<SubSeq(t, 1, Min(sp) - 1)>> \o Words(From(t, Min(sp)))

\* list[:n]
Take(list, n) == SubSeq(list, 1, IF Len(list) < n THEN Len(list) ELSE n)

\* str.title(): a letter is upper-cased unless the character before it is
\* a letter, in which case it is lower-cased.
Title(s) ==
    [k \in 1..Len(s) |->
        IF ~IsAlpha(s[k]) THEN s[k]
        ELSE IF k > 1 /\ IsAlpha(s[k - 1]) THEN LowerChar(s[k])
        ELSE UpperChar(s[k])]

\* line 88: qcount
QuizCount == 5
\* line 91: a quiz sentence has more than this many words
QuizMinWords == 8
\* line 97: "Q: What does the following concept explain?"
QuizQuestion ==
    <<"Q", ":", " ", "W", "h", "a", "t", " ", "d", "o", "e", "s", " ",
      "t", "h", "e", " ", "f", "o", "l", "l", "o", "w", "i", "n", "g",
      " ", "c", "o", "n", "c", "e", "p", "t", " ", "e", "x", "p", "l",
      "a", "i", "n", "?">>
\* line 101
NoQuiz ==
    <<"N", "o", " ", "q", "u", "i", "z", " ", "c", "o", "u", "l", "d",
      " ", "b", "e", " ", "g", "e", "n", "e", "r", "a", "t", "e", "d",
      ".">>

\* line 89-92
RECURSIVE QuizSentences(_)
QuizSentences(list) ==
    IF list = <<>> THEN <<>>
    ELSE IF WordCount(list[1]) > QuizMinWords
         THEN <<Strip(list[1])>> \o QuizSentences(Tail(list))
         ELSE QuizSentences(Tail(list))

\* line 94-99
RECURSIVE QuizItems(_)
QuizItems(list) ==
    IF list = <<>> THEN <<>>
    ELSE <<QuizQuestion \o <<NL>> \o LabelA \o <<" ">> \o list[1]>>
            \o QuizItems(Tail(list))

\* line 88-101
_local_quiz(text) ==
    LET out == QuizItems(Take(QuizSentences(SplitSentences(text)), QuizCount))
    IN  IF out # <<>> THEN Join(out, <<NL, NL>>) ELSE NoQuiz

\* line 104: count
CardCount == 8
\* line 109: a flashcard sentence has at least this many words
CardMinWords == 8
\* line 114: words of the sentence that make the front
CardTitleWords == 4
\* line 111
SentenceFillers ==
    { <<"i", "t", " ">>, <<"t", "h", "i", "s", " ">>,
      <<"h", "o", "w", "e", "v", "e", "r">>, <<"n", "o", "t", "e">> }
\* line 120
NoCards ==
    <<"N", "o", " ", "f", "l", "a", "s", "h", "c", "a", "r", "d", "s",
      " ", "c", "o", "u", "l", "d", " ", "b", "e", " ", "g", "e", "n",
      "e", "r", "a", "t", "e", "d", ".">>

\* line 108-118: the cards made from the sentences, at most CardCount of them
RECURSIVE LocalCards(_, _)
LocalCards(list, made) ==
    IF list = <<>> \/ made >= CardCount THEN <<>>
    ELSE LET s == list[1]
         IN  IF WordCount(s) < CardMinWords
                  \/ \E f \in SentenceFillers : StartsWith(Lower(s), f)
             THEN LocalCards(Tail(list), made)
             ELSE <<Pair(LabelFront,
                         Title(Join(Take(Words(s), CardTitleWords), <<" ">>)),
                         LabelBack, Strip(s))>>
                     \o LocalCards(Tail(list), made + 1)

\* line 104-120
_local_flashcards(text) ==
    LET cards == LocalCards(SplitSentences(text), 0)
    IN  IF cards # <<>> THEN Join(cards, <<NL, NL>>) ELSE NoCards

\* line 123: max_points
MaxPoints == 8

\* line 125: f"- {s}" for each sentence
RECURSIVE Bullets(_)
Bullets(list) ==
    IF list = <<>> THEN <<>>
    ELSE <<<<"-", " ">> \o list[1]>> \o Bullets(Tail(list))

\* line 123-125
_local_bullets(text) ==
    Join(Bullets(Take(SplitSentences(Strip(text)), MaxPoints)), <<NL>>)

(* ---------------------------------------------------------------------- *)
(* ai_summarizer.py: generate_output                                       *)
(* ---------------------------------------------------------------------- *)
\* Bounds on the inputs: sentences per text, blocks per remote content.
MaxSentences == 2
MaxContentBlocks == 2

\* line 131
NoInput ==
    <<"N", "o", " ", "i", "n", "p", "u", "t", " ", "t", "e", "x", "t",
      " ", "p", "r", "o", "v", "i", "d", "e", "d", ".">>

\* line 21-45: the keys of PROMPTS
PromptKeys == {"notes", "quiz", "flashcards", "bullets"}
\* The output_type values tried; "summary" is not a key of PROMPTS.
Kinds == PromptKeys \cup {"summary"}

\* Sentences the input texts are made of: nine words; eight words starting
\* with "It "; one word.
TextPieces ==
  { <<"a", " ", "b", " ", "c", " ", "d", " ", "e", " ", "f", " ", "g",
      " ", "h", " ", "i", ".">>,
    <<"I", "t", " ", "i", "s", " ", "b", " ", "c", " ", "d", " ", "e",
      " ", "f", " ", "g", "?">>,
    <<"H", "i", "!">> }

\* Blocks the remote content is made of: a quiz pair, a card, a card whose
\* front starts with a filler, free text, a blank.
ContentBlocks ==
  { <<"Q", ":", " ", "x", "\n", "A", ":", " ", "y">>,
    <<"F", "r", "o", "n", "t", ":", " ", "k", "\n", "B", "a", "c", "k",
      ":", " ", "z">>,
    <<"F", "r", "o", "n", "t", ":", " ", "I", "t", "\n", "B", "a", "c",
      "k", ":", " ", "z">>,
    <<"j", "u", "n", "k">>,
    <<" ">> }

\* All concatenations of at most n pieces, joined by sep.
RECURSIVE Concats(_, _, _)
Concats(pieces, sep, n) ==
    IF n = 0 THEN {<<>>}
    ELSE LET shorter == Concats(pieces, sep, n - 1)
         IN  shorter \cup pieces
                \cup {t \o sep \o x : t \in shorter \ {<<>>}, x \in pieces}

\* A text of one sentence more than _local_bullets emits.
LongText == Join([i \in 1..(MaxPoints + 1) |-> <<"H", "i", "!">>], <<" ">>)

\* line 129: the texts passed in, among them "", blank ones and None
Texts ==
    Concats(TextPieces, <<" ">>, MaxSentences)
       \cup {<<" ">>, <<NL, " ">>, LongText}
TextArgs == {<<>>} \cup {<<t>> : t \in Texts}
Contents == Concats(ContentBlocks, <<NL, NL>>, MaxContentBlocks)

\* What requests.post raises instead of returning a response.
PostErrors == {"ConnectionError", "Timeout"}
\* Status codes of a response handed back by requests.post.
Statuses == {200, 304, 404, 503}
\* Bodies for which response.json()["choices"][0]["message"]["content"]
\* .strip() raises: not JSON, no "choices" key, empty list, content null.
BadBodies == {"JSONDecodeError", "KeyError", "IndexError", "AttributeError"}

GenInit ==
    /\ gen_pc = "idle"
    /\ gen_text = <<>>
    /\ gen_kind = "notes"
    /\ gen_prompt = <<>>
    /\ gen_status = 0
    /\ gen_content = <<>>
    /\ gen_raw = <<>>
    /\ gen_ran = {}
    /\ gen_result = <<>>

\* generate_output(text, output_type) is called. The function keeps no
\* state from one call to the next, so a behaviour holds one call.
GenCall ==
    /\ UNCHANGED <<guard_vars, clean_vars>>
    /\ gen_pc = "idle"
    /\ \E t \in TextArgs, k \in Kinds :
          /\ gen_text' = t
          /\ gen_kind' = k
    /\ gen_pc' = "s130"
    /\ gen_prompt' = <<>>
    /\ gen_status' = 0
    /\ gen_content' = <<>>
    /\ gen_raw' = <<>>
    /\ gen_ran' = {}
    /\ gen_result' = <<>>

\* Faulty variant: only `not text` is tested, text.strip() is not.
NoText_NoStrip(t) == t = <<>> \/ t[1] = <<>>

\* line 130: not text or not text.strip()
NoText(t) == t = <<>> \/ t[1] = <<>> \/ Strip(t[1]) = <<>>

\* line 130-131
GenCheckInput ==
    /\ UNCHANGED <<guard_vars, clean_vars>>
    /\ gen_pc = "s130"
    /\ IF NoText(gen_text)
       THEN gen_result' = <<NoInput>> /\ gen_pc' = "done"
       ELSE gen_result' = gen_result /\ gen_pc' = "s133"
    /\ UNCHANGED <<gen_text, gen_kind, gen_prompt, gen_status, gen_content,
                   gen_raw, gen_ran>>

\* line 133: PROMPTS.get(output_type, PROMPTS["notes"])
TemplateFor(kind) == IF kind \in PromptKeys THEN kind ELSE "notes"

\* line 133-143: the prompt and the payload are built
GenBuildPrompt ==
    /\ UNCHANGED <<guard_vars, clean_vars>>
    /\ gen_pc = "s133"
    /\ gen_prompt' = <<TemplateFor(gen_kind), gen_text[1]>>
    /\ gen_ran' = gen_ran \cup {"prompt"}
    /\ gen_pc' = "s146"
    /\ UNCHANGED <<gen_text, gen_kind, gen_status, gen_content, gen_raw,
                   gen_result>>

\* line 146: requests.post raises, or hands back a response
GenPost ==
    /\ UNCHANGED <<guard_vars, clean_vars>>
    /\ gen_pc = "s146"
    /\ gen_ran' = gen_ran \cup {"post"}
    /\ \/ /\ \E e \in PostErrors : gen_pc' = "s159"
          /\ UNCHANGED gen_status
       \/ /\ \E st \in Statuses : gen_status' = st
          /\ gen_pc' = "s147"
    /\ UNCHANGED <<gen_text, gen_kind, gen_prompt, gen_content, gen_raw,
                   gen_result>>

\* requests' Response.raise_for_status raises HTTPError for 4xx and 5xx.
RaisesForStatus(st) == 400 <= st /\ st < 600

\* line 147
GenRaiseForStatus ==
    /\ UNCHANGED <<guard_vars, clean_vars>>
    /\ gen_pc = "s147"
    /\ gen_pc' = IF RaisesForStatus(gen_status) THEN "s159" ELSE "s149"
    /\ UNCHANGED <<gen_text, gen_kind, gen_prompt, gen_status, gen_content,
                   gen_raw, gen_ran, gen_result>>

\* line 149: the body is decoded and the content extracted and stripped
GenParse ==
    /\ UNCHANGED <<guard_vars, clean_vars>>
    /\ gen_pc = "s149"
    /\ \/ /\ \E e \in BadBodies : gen_pc' = "s159"
          /\ UNCHANGED <<gen_content, gen_raw>>
       \/ /\ \E c \in Contents :
                /\ gen_content' = <<c>>
                /\ gen_raw' = <<Strip(c)>>
          /\ gen_pc' = "s151"
    /\ UNCHANGED <<gen_text, gen_kind, gen_prompt, gen_status, gen_ran,
                   gen_result>>

\* Faulty variant: the flashcards branch is missing.
CleanerFor_QuizOnly(kind) == IF kind = "quiz" THEN "clean_quiz" ELSE "none"

\* line 151-157: which cleaner the stripped content goes through
CleanerFor(kind) ==
    IF kind = "quiz" THEN "clean_quiz"
    ELSE IF kind = "flashcards" THEN "clean_flashcards"
    ELSE "none"

Cleaned(kind, raw) ==
    IF CleanerFor(kind) = "clean_quiz" THEN clean_quiz(raw)
    ELSE IF CleanerFor(kind) = "clean_flashcards" THEN clean_flashcards(raw)
    ELSE raw

\* line 151-157
GenRoute ==
    /\ UNCHANGED <<guard_vars, clean_vars>>
    /\ gen_pc = "s151"
    /\ gen_result' = <<Cleaned(gen_kind, gen_raw[1])>>
    /\ gen_ran' = gen_ran \cup ({CleanerFor(gen_kind)} \ {"none"})
    /\ gen_pc' = "done"
    /\ UNCHANGED <<gen_text, gen_kind, gen_prompt, gen_status, gen_content,
                   gen_raw>>

\* line 159-160: the exception is logged and swallowed
GenExcept ==
    /\ UNCHANGED <<guard_vars, clean_vars>>
    /\ gen_pc = "s159"
    /\ gen_ran' = gen_ran \cup {"except"}
    /\ gen_pc' = "s163"
    /\ UNCHANGED <<gen_text, gen_kind, gen_prompt, gen_status, gen_content,
                   gen_raw, gen_result>>

\* line 163-172: which local generator the text goes through
FallbackFor(kind) ==
    IF kind = "quiz" THEN "_local_quiz"
    ELSE IF kind = "flashcards" THEN "_local_flashcards"
    ELSE IF kind = "bullets" THEN "_local_bullets"
    ELSE "none"

Fallback(kind, text) ==
    IF FallbackFor(kind) = "_local_quiz" THEN _local_quiz(text)
    ELSE IF FallbackFor(kind) = "_local_flashcards" THEN _local_flashcards(text)
    ELSE IF FallbackFor(kind) = "_local_bullets" THEN _local_bullets(text)
    ELSE text

\* line 163-172
GenFallback ==
    /\ UNCHANGED <<guard_vars, clean_vars>>
    /\ gen_pc = "s163"
    /\ gen_result' = <<Fallback(gen_kind, gen_text[1])>>
    /\ gen_ran' = gen_ran \cup ({FallbackFor(gen_kind)} \ {"none"})
    /\ gen_pc' = "done"
    /\ UNCHANGED <<gen_text, gen_kind, gen_prompt, gen_status, gen_content,
                   gen_raw>>

GenNext ==
    \/ GenCall
    \/ GenCheckInput
    \/ GenBuildPrompt
    \/ GenPost
    \/ GenRaiseForStatus
    \/ GenParse
    \/ GenRoute
    \/ GenExcept
    \/ GenFallback

(* ---------------------------------------------------------------------- *)
(* ai_summarizer.py: the cleaners applied to a raw output, then to their   *)
(* own result                                                              *)
(* ---------------------------------------------------------------------- *)
\* Bounds on the raw outputs: pieces per string, blocks per string.
MaxRawPieces == 4
MaxRawBlocks == 2

\* Raw outputs for clean_quiz: every string of at most MaxRawPieces pieces,
\* and blank-line separated lists of blocks.
QuizPieces == {LabelQ, LabelA, <<" ">>, <<NL>>, <<"x">>}
QuizBlocks ==
  { <<"Q", ":", " ", "W", "h", "a", "t", " ", "i", "s", " ", "2", "+",
      "2", "?", "\n", "A", ":", " ", "4">>,
    <<"r", "a", "n", "d", "o", "m", " ", "j", "u", "n", "k">>,
    <<"Q", ":", "\n", "A", ":", " ", "4">> }
QuizRaws ==
    Concats(QuizPieces, <<>>, MaxRawPieces)
       \cup Concats(QuizBlocks, <<NL, NL>>, MaxRawBlocks)

\* Raw outputs for clean_flashcards: fronts of one, six and seven words, a
\* front starting with a filler, a block with no card, a blank front.
CardPieces == {LabelFront, LabelBack, <<" ">>, <<NL>>, <<"w">>}
CardBlocks ==
  { <<"F", "r", "o", "n", "t", ":", " ", "k", "\n", "B", "a", "c", "k",
      ":", " ", "z">>,
    <<"F", "r", "o", "n", "t", ":", " ", "a", " ", "b", " ", "c", " ",
      "d", " ", "e", " ", "f", "\n", "B", "a", "c", "k", ":", " ", "z">>,
    <<"F", "r", "o", "n", "t", ":", " ", "a", " ", "b", " ", "c", " ",
      "d", " ", "e", " ", "f", " ", "g", "\n", "B", "a", "c", "k", ":",
      " ", "z">>,
    <<"F", "r", "o", "n", "t", ":", " ", "I", "t", "\n", "B", "a", "c",
      "k", ":", " ", "z">>,
    <<"j", "u", "n", "k">>,
    <<"B", "a", "c", "k", ":", " ", "a", " ", "b", " ", "c", " ", "d",
      " ", "e", " ", "f", " ", "g", "\n", "F", "r", "o", "n", "t", ":",
      " ">> }
CardRaws ==
    Concats(CardPieces, <<>>, MaxRawPieces)
       \cup Concats(CardBlocks, <<NL, NL>>, MaxRawBlocks)

CleanInit ==
    /\ clean_pc = "idle"
    /\ clean_fn = "none"
    /\ clean_raw = <<>>
    /\ clean_out = <<>>
    /\ clean_again = <<>>

\* line 48, 63: the function under the name fn
Clean(fn, output) ==
    IF fn = "clean_quiz" THEN clean_quiz(output) ELSE clean_flashcards(output)

\* clean_quiz(output) is called on a raw output.
CallCleanQuiz ==
    /\ clean_pc = "idle"
    /\ clean_fn' = "clean_quiz"
    /\ \E raw \in QuizRaws : clean_raw' = raw
    /\ clean_pc' = "called"
    /\ UNCHANGED <<clean_out, clean_again, guard_vars, gen_vars>>

\* clean_flashcards(output) is called on a raw output.
CallCleanCards ==
    /\ clean_pc = "idle"
    /\ clean_fn' = "clean_flashcards"
    /\ \E raw \in CardRaws : clean_raw' = raw
    /\ clean_pc' = "called"
    /\ UNCHANGED <<clean_out, clean_again, guard_vars, gen_vars>>

\* The cleaner runs and returns.
CleanReturn ==
    /\ clean_pc = "called"
    /\ clean_out' = <<Clean(clean_fn, clean_raw)>>
    /\ clean_pc' = "once"
    /\ UNCHANGED <<clean_fn, clean_raw, clean_again, guard_vars, gen_vars>>

\* The same cleaner is called on what it returned.
CleanAgain ==
    /\ clean_pc = "once"
    /\ clean_again' = <<Clean(clean_fn, clean_out[1])>>
    /\ clean_pc' = "twice"
    /\ UNCHANGED <<clean_fn, clean_raw, clean_out, guard_vars, gen_vars>>

CleanNext ==
    \/ CallCleanQuiz
    \/ CallCleanCards
    \/ CleanReturn
    \/ CleanAgain

(* ---------------------------------------------------------------------- *)
(* Specifications                                                          *)
(* ---------------------------------------------------------------------- *)
Init == GuardInit /\ GenInit /\ CleanInit

\* The request threads using the Whisper guard.
Next == GuardNext
Spec == Init /\ [][Next]_vars

\* Calls of generate_output.
GenSpec == Init /\ [][GenNext]_vars

\* Calls of the cleaners.
CleanSpec == Init /\ [][CleanNext]_vars

\* Fairness of the scheduling: a thread whose next step stays possible
\* eventually takes it. A thread waiting at line 71 can step only while the
\* lock is free; as the calls are bounded the lock ends up free for good, so
\* weak fairness is enough here and the stronger assumption of a fair lock
\* (SF_vars(Acquire(t))) is not needed.
FairSpec == Spec /\ \A t \in Threads : WF_vars(Step(t))

(* ---------------------------------------------------------------------- *)
(* Claims about the guard                                                  *)
(* ---------------------------------------------------------------------- *)
InGuard(t) == pc[t] \in {"g63", "g67", "g68", "g71", "g72", "l36", "l38",
                         "exit", "g77", "g80", "g83"}
Unloaded == whisper_model = None /\ model_error = <<>> /\ ~model_loading

\* C1: however many threads call _get_whisper_model concurrently and
\* whatever the outcome of the load, _load_model is executed at most once
\* (exactly once as soon as some call has got past the lock).
C1_LoadedOnce ==
    /\ load_calls <= 1
    /\ (\E t \in Threads : pc[t] \in {"exit", "g77", "g80", "g83"})
          => load_calls = 1

\* C2: once a load has failed, every call started afterwards that reaches
\* _get_whisper_model raises the load-failure error with the cause of the
\* first failure, and never starts another load.
C2_PermanentFailure ==
    \A t \in Threads :
        after_fail[t] =>
            /\ pc[t] \notin {"l36", "l38"}
            /\ result[t].kind \notin {"pending", "FileNotFoundError"}
                  => result[t] = LoadFailed(first_error)

\* C3: two threads racing into _get_whisper_model while the guard is
\* Unloaded both get a handle if no load fails, and all handles ever
\* returned are one and the same.
Racing(t) ==
    /\ InGuard(t) /\ Unloaded
    /\ \E t2 \in Threads \ {t} : InGuard(t2)
SameHandle ==
    \A t1, t2 \in Threads :
        got[t1] # None /\ got[t2] # None => got[t1] = got[t2]
C3_RaceSameHandle ==
    /\ []SameHandle
    /\ \A t \in Threads :
          Racing(t) ~> (first_error # <<>> \/ got[t] # None)
C3_Witness ==
    /\ first_error = <<>>
    /\ load_calls = 1
    /\ \A t \in {1, 2} : result[t].kind = "return" /\ call[t].op = "get"
    /\ got[1] = got[2] /\ got[1] # None
    /\ ncalls = 2

\* C4: a call that returns hands back a handle whose load has completed,
\* never None, on the fast path as on the locked path.
C4_ReturnsLoadedHandle ==
    \A t \in Threads :
        /\ result[t].kind = "return"
              => result[t].val # None /\ result[t].val \in loaded
        /\ got[t] # None => got[t] \in loaded
C4_Witness ==
    \E t1, t2 \in Threads :
        /\ t1 # t2
        /\ pc[t1] = "g68" /\ whisper_model \in loaded
        /\ result[t2].kind = "return" /\ result[t2].val = whisper_model

\* C5: the threads inside the with block are exactly the lock's holder, so
\* a caller arriving during a load waits at the lock; and under fair
\* scheduling every call ends (returns or raises), the lock being released
\* after a failed load as well.
LockDiscipline ==
    \A t \in Threads :
        pc[t] \in {"g72", "l36", "l38", "exit"} <=> model_lock = t
C5_BlockThenFinish ==
    /\ []LockDiscipline
    /\ \A t \in Threads : (pc[t] # "idle") ~> (pc[t] = "idle")
C5_Witness ==
    \E t1, t2 \in Threads :
        /\ pc[t1] = "g71" /\ model_lock = t2 /\ pc[t2] = "exit"
        /\ model_error # <<>>

\* C10: a convert_to_text call on a path that does not exist never reaches
\* a line of _get_whisper_model and never holds the lock; it ends with
\* FileNotFoundError.
NonexistentCall(t) == call[t].op = "convert" /\ ~call[t].exists
C10_NotFoundBeforeGuard ==
    \A t \in Threads :
        NonexistentCall(t) =>
            /\ pc[t] \in {"c88", "idle"}
            /\ model_lock # t
            /\ pc[t] = "idle" => result[t] = NotFound
C10_Witness ==
    \E t \in Threads :
        /\ NonexistentCall(t) /\ pc[t] = "idle" /\ result[t] = NotFound
        /\ whisper_model # None


\* C15: a recorded failure and a loaded handle never coexist (_model_error
\* is set only while _whisper_model is None), and no call raises the
\* load-failure error while a loaded model is available.
C15_ErrorExcludesModel ==
    /\ model_error # <<>> => whisper_model = None
    /\ \A t \in Threads :
          pc[t] \in {"g63", "g77"} /\ Truthy(model_error)
              => whisper_model = None

(* ---------------------------------------------------------------------- *)
(* Claims about generate_output                                            *)
(* ---------------------------------------------------------------------- *)
\* The argument is None, empty or made of whitespace only.
BlankArg(t) == t = <<>> \/ \A k \in 1..Len(t[1]) : IsSpace(t[1][k])
GenDone == gen_pc = "done"
LocalGenerators == {"_local_quiz", "_local_flashcards", "_local_bullets"}
Cleaners == {"clean_quiz", "clean_flashcards"}

\* C6: for a text that is not blank, generate_output returns (it never
\* raises) and the string returned is not empty, whatever the endpoint did.
C6_NeverEmpty ==
    GenDone /\ ~BlankArg(gen_text) => gen_result # <<>> /\ gen_result[1] # <<>>

\* The remote call failed in the claim's sense: requests.post raised, the
\* response is not 2xx, or the body has no choices[0].message.content.
RemoteFailed ==
    /\ "post" \in gen_ran
    /\ \/ gen_status = 0
       \/ ~(200 <= gen_status /\ gen_status < 300)
       \/ gen_content = <<>>

\* C7: after a failed remote call the result is that of the local generator
\* of the kind (_local_quiz, _local_flashcards, _local_bullets), and the
\* input text itself for notes and for an unknown kind.
C7_FailureUsesFallback ==
    GenDone /\ RemoteFailed =>
        gen_result =
            << CASE gen_kind = "quiz" -> _local_quiz(gen_text[1])
                 [] gen_kind = "flashcards" -> _local_flashcards(gen_text[1])
                 [] gen_kind = "bullets" -> _local_bullets(gen_text[1])
                 [] OTHER -> gen_text[1] >>

\* The first min(8, k) of the k sentences of a text, in order, one per line,
\* each prefixed with "- ".
FirstSentencesAsBullets(text) ==
    LET sentences == SplitSentences(Strip(text))
        n == Min({8, Len(sentences)})
    IN  Join([i \in 1..n |-> <<"-", " ">> \o sentences[i]], <<NL>>)

\* C14: after a failed remote call for kind bullets the result is the first
\* min(8, k) sentences of the input, in input order, one per line, each
\* prefixed with "- ", whatever their length.
C14_BulletsFallback ==
    GenDone /\ RemoteFailed /\ gen_kind = "bullets" =>
        gen_result = <<FirstSentencesAsBullets(gen_text[1])>>

\* The remote call succeeded: a 2xx response whose body holds a content.
RemoteSucceeded ==
    /\ 200 <= gen_status /\ gen_status < 300
    /\ gen_content # <<>>

\* C8 as stated: on success the result is the cleaner's result on the
\* remote content (quiz, flashcards) or the remote content itself (other
\* kinds), and no local generator ran.
C8_CleansContent ==
    GenDone /\ RemoteSucceeded =>
        /\ gen_result =
              << CASE gen_kind = "quiz" -> clean_quiz(gen_content[1])
                   [] gen_kind = "flashcards" -> clean_flashcards(gen_content[1])
                   [] OTHER -> gen_content[1] >>
        /\ gen_ran \cap LocalGenerators = {}

\* C8 amended: on success the result is the cleaner's result on the
\* stripped remote content (quiz, flashcards) or the stripped content itself
\* (other kinds); only that kind's cleaner ran and no local generator.
C8_CleansStrippedContent ==
    GenDone /\ RemoteSucceeded =>
        /\ gen_result =
              << CASE gen_kind = "quiz" -> clean_quiz(Strip(gen_content[1]))
                   [] gen_kind = "flashcards" ->
                         clean_flashcards(Strip(gen_content[1]))
                   [] OTHER -> Strip(gen_content[1]) >>
        /\ gen_ran \cap LocalGenerators = {}
        /\ gen_ran \cap Cleaners =
              CASE gen_kind = "quiz" -> {"clean_quiz"}
                [] gen_kind = "flashcards" -> {"clean_flashcards"}
                [] OTHER -> {}
C8_Witness ==
    /\ GenDone /\ RemoteSucceeded
    /\ gen_kind = "flashcards"
    /\ gen_result # <<Strip(gen_content[1])>>
    /\ Len(gen_result[1]) < Len(Strip(gen_content[1]))
    /\ gen_ran \cap Cleaners = {"clean_flashcards"}

\* C9: for a None, empty or whitespace-only text the call goes from the
\* test of line 130 straight to the return of the sentinel: no prompt is
\* built, nothing is posted, no cleaner and no local generator runs.
C9_NoInputSentinel ==
    gen_pc # "idle" /\ BlankArg(gen_text) =>
        /\ gen_pc \in {"s130", "done"}
        /\ gen_ran = {} /\ gen_prompt = <<>> /\ gen_status = 0
        /\ GenDone => gen_result = <<NoInput>>
C9_Witness ==
    /\ GenDone /\ gen_text = <<<<NL, " ">>>> /\ gen_kind = "quiz"
    /\ gen_result = <<NoInput>>

(* ---------------------------------------------------------------------- *)
(* Claims about the cleaners                                               *)
(* ---------------------------------------------------------------------- *)
CleanedOnce(fn) == clean_fn = fn /\ clean_pc \in {"once", "twice"}

\* The field of a block under a label, read line by line: the text that
\* follows the first occurrence of the label up to the end of its line,
\* stripped; <<>> when the label does not occur.
FieldOnLine(block, label) ==
    LET at == {p \in 1..Len(block) : HasAt(block, p, label)}
    IN  IF at = {} THEN <<>>
        ELSE LET g == Min(at) + Len(label)
             IN  <<Strip(SubSeq(block, g, LineEnd(block, g)))>>

HasFieldOnLine(block, label) ==
    /\ FieldOnLine(block, label) # <<>>
    /\ FieldOnLine(block, label)[1] # <<>>

\* C11: clean_quiz is idempotent: applied to its own result it returns that
\* result again, for any input.
C11_QuizIdempotent ==
    clean_fn = "clean_quiz" /\ clean_pc = "twice" => clean_again = clean_out

\* A block holding a non-empty Q: field and a non-empty A: field.
ValidQuizBlock(block) ==
    HasFieldOnLine(block, LabelQ) /\ HasFieldOnLine(block, LabelA)

\* The text made of the valid blocks only, in order, each as the two lines
\* "Q: <question>" and "A: <answer>", joined by blank lines; raw itself when
\* no block is valid.
KeptQuizBlocks(raw) ==
    LET valid == SelectSeq(SplitBlocks(Strip(raw)), ValidQuizBlock)
    IN  IF valid = <<>> THEN raw
        ELSE Join([i \in 1..Len(valid) |->
                      Pair(LabelQ, FieldOnLine(valid[i], LabelQ)[1],
                           LabelA, FieldOnLine(valid[i], LabelA)[1])],
                  <<NL, NL>>)

\* C13: clean_quiz returns exactly the blocks that hold both a non-empty Q:
\* field and a non-empty A: field, in their order, each as two lines, joined
\* by blank lines, and returns raw unchanged when no block validates.
C13_KeepsValidBlocks ==
    CleanedOnce("clean_quiz") => clean_out[1] = KeptQuizBlocks(clean_raw)

\* A block whose front has more than six words.
LongFront(block) ==
    /\ FieldOnLine(block, LabelFront) # <<>>
    /\ WordCount(FieldOnLine(block, LabelFront)[1]) > 6

NoLongFront(text) ==
    \A i \in 1..Len(SplitBlocks(text)) : ~LongFront(SplitBlocks(text)[i])

\* The cards of raw that pass the filter of clean_flashcards.
Survivors(raw) == CardEntries(SplitBlocks(Strip(raw)))

\* C12 as stated: whatever raw is, no block whose front has more than six
\* words appears in the text clean_flashcards returns.
C12_NoLongFront ==
    CleanedOnce("clean_flashcards") => NoLongFront(clean_out[1])

\* C12: when at least one card survives the filter, no block whose front has
\* more than six words appears in the returned text; when none survives, raw
\* is returned unchanged, long fronts included.
C12_NoLongFrontAmongSurvivors ==
    CleanedOnce("clean_flashcards") =>
        IF Survivors(clean_raw) = <<>> THEN clean_out[1] = clean_raw
        ELSE NoLongFront(clean_out[1])

\* A long-fronted block was dropped while another card survived.
C12_Witness ==
    /\ CleanedOnce("clean_flashcards")
    /\ Survivors(clean_raw) # <<>>
    /\ ~NoLongFront(Strip(clean_raw))

============================================================================
